---- MODULE Spec2Model ----
(***************************************************************************)
(* Model of bsdspy: the two interpolate_factor routines of                 *)
(* src/bsdspy/bsds.py, the site-factor lookup classes built on them, and   *)
(* classify_ground_type of src/type.py.                                    *)
(*                                                                         *)
(* Python floats are modelled as exact rationals [n, d] (d > 0, lowest     *)
(* terms); None is the record [none |-> TRUE].                             *)
(***************************************************************************)
EXTENDS Integers, Sequences, FiniteSets, TLC

VARIABLES
    breakpoints,    \* interpolate_factor: the reference_values argument
    factors,        \* interpolate_factor: the factors argument
    prev,           \* the first of the two calls to interpolate_factor
    cur,            \* the last call to interpolate_factor
    siteFactorObj,  \* the SeismicSiteFactor instance (None before construction)
    designObj,      \* the SeismicDesign instance (None before construction)
    outcome,        \* how the last constructor or method call on them ended
    data,           \* classify_ground_type: the data argument
    idx,            \* classify_ground_type: position of the for loop in data
    cumulative_sum, \* classify_ground_type: the local cumulative_sum
    table,          \* classify_ground_type: the local table
    pc,             \* classify_ground_type: "loop" or "returned"
    returned        \* classify_ground_type: the value returned (<<>> before)

interpVars == <<breakpoints, factors, prev, cur>>
lookupVars == <<siteFactorObj, designObj, outcome>>
classifyVars == <<data, idx, cumulative_sum, table, pc, returned>>
vars == <<interpVars, lookupVars, classifyVars>>

(***************************************************************************)
(* Bounds of the model.                                                    *)
(***************************************************************************)
MaxLen == 3        \* longest breakpoint table drawn; breakpoints lie in 0..MaxLen
MaxFactor == 2     \* factors are drawn from 0..MaxFactor
MaxLayers == 3     \* longest layer sequence given to classify_ground_type
MaxH == 2          \* layer thicknesses are drawn from -1..MaxH

(***************************************************************************)
(* Exact rational arithmetic standing for Python's float operators.        *)
(***************************************************************************)
Abs(x) == IF x < 0 THEN -x ELSE x

RECURSIVE GCD(_, _)
GCD(a, b) == IF b = 0 THEN a ELSE GCD(b, a % b)

Rat(n, d) ==
    LET s == IF d < 0 THEN -1 ELSE 1
        g == GCD(Abs(n), Abs(d))
    IN  [n |-> (s * n) \div g, d |-> (s * d) \div g]

Zero == Rat(0, 1)
RAdd(x, y) == Rat(x.n * y.d + y.n * x.d, x.d * y.d)
RSub(x, y) == Rat(x.n * y.d - y.n * x.d, x.d * y.d)
RMul(x, y) == Rat(x.n * y.n, x.d * y.d)
RDiv(x, y) == Rat(x.n * y.d, x.d * y.n)
RLt(x, y) == x.n * y.d < y.n * x.d
RLe(x, y) == x.n * y.d <= y.n * x.d

Last(s) == s[Len(s)]

None == [none |-> TRUE]

(***************************************************************************)
(* SeismicSiteFactor.interpolate_factor.  The result records the value     *)
(* returned and the source line of the return statement that produced it.  *)
(***************************************************************************)
(* Mutants of the interpolation line: each is one plausible slip. *)
SiteFactorLerp_NextRef(value, rv, f, i) ==
    RAdd(f[i], RDiv(RMul(RSub(value, rv[i + 1]), RSub(f[i + 1], f[i])),
                    RSub(rv[i + 1], rv[i])))

SiteFactorLerp_FromUpper(value, rv, f, i) ==
    RAdd(f[i + 1], RDiv(RMul(RSub(value, rv[i]), RSub(f[i + 1], f[i])),
                        RSub(rv[i + 1], rv[i])))

SiteFactorLerp_SignFlipped(value, rv, f, i) ==
    RAdd(f[i], RDiv(RMul(RSub(value, rv[i]), RSub(f[i], f[i + 1])),
                    RSub(rv[i + 1], rv[i])))

SiteFactorLerp(value, rv, f, i) ==
    RAdd(f[i], RDiv(RMul(RSub(value, rv[i]), RSub(f[i + 1], f[i])),
                    RSub(rv[i + 1], rv[i])))

RECURSIVE SiteFactorScan(_, _, _, _)
SiteFactorScan(value, rv, f, i) ==
    IF i > Len(rv) - 1
    THEN [ret |-> Last(f), line |-> 155]
    ELSE IF RLe(rv[i], value) /\ RLt(value, rv[i + 1])
         THEN [ret |-> SiteFactorLerp(value, rv, f, i), line |-> 148]
         ELSE SiteFactorScan(value, rv, f, i + 1)

(* Mutant: the lower boundary check is missing. *)
SiteFactorInterpolate_NoLowClamp(value, rv, f) ==
    IF RLe(Last(rv), value) THEN [ret |-> Last(f), line |-> 142]
    ELSE SiteFactorScan(value, rv, f, 1)

SiteFactorInterpolate(value, rv, f) ==
    IF RLe(value, rv[1]) THEN [ret |-> f[1], line |-> 140]
    ELSE IF RLe(Last(rv), value) THEN [ret |-> Last(f), line |-> 142]
    ELSE SiteFactorScan(value, rv, f, 1)

(***************************************************************************)
(* SeismicDesign.interpolate_factor.                                       *)
(***************************************************************************)
DesignLerp(value, rv, f, i) ==
    RAdd(f[i], RDiv(RMul(RSub(f[i + 1], f[i]), RSub(value, rv[i])),
                    RSub(rv[i + 1], rv[i])))

(* Mutant: the early return tests "<" instead of "<=". *)
RECURSIVE DesignScan_StrictLess(_, _, _, _)
DesignScan_StrictLess(value, rv, f, i) ==
    IF i > Len(rv) - 1
    THEN [ret |-> Last(f), line |-> 212]
    ELSE IF RLt(value, rv[i])
         THEN [ret |-> f[i], line |-> 208]
         ELSE IF RLt(rv[i], value) /\ RLt(value, rv[i + 1])
              THEN [ret |-> DesignLerp(value, rv, f, i), line |-> 210]
              ELSE DesignScan_StrictLess(value, rv, f, i + 1)

RECURSIVE DesignScan(_, _, _, _)
DesignScan(value, rv, f, i) ==
    IF i > Len(rv) - 1
    THEN [ret |-> Last(f), line |-> 212]
    ELSE IF RLe(value, rv[i])
         THEN [ret |-> f[i], line |-> 208]
         ELSE IF RLt(rv[i], value) /\ RLt(value, rv[i + 1])
              THEN [ret |-> DesignLerp(value, rv, f, i), line |-> 210]
              ELSE DesignScan(value, rv, f, i + 1)

DesignInterpolate(value, rv, f) == DesignScan(value, rv, f, 1)

(***************************************************************************)
(* Inputs of the interpolation specification: strictly increasing          *)
(* breakpoint lists of length 2..MaxLen over 0..MaxLen, index-aligned      *)
(* factor lists over 0..MaxFactor, and values on the grid of thirds from   *)
(* below the smallest to above the largest possible breakpoint.            *)
(***************************************************************************)
Lengths == 2..MaxLen

StrictlyIncreasing(s) == \A i \in 1..(Len(s) - 1) : RLt(s[i], s[i + 1])

BreakpointLists ==
    UNION {{[i \in 1..n |-> Rat(s[i], 1)] : s \in {t \in [1..n -> 0..MaxLen] :
                \A i \in 1..(n - 1) : t[i] < t[i + 1]}} : n \in Lengths}

FactorLists(n) == {[i \in 1..n |-> Rat(s[i], 1)] : s \in [1..n -> 0..MaxFactor]}

Values == {Rat(k, 3) : k \in (-1)..(3 * MaxLen + 1)}

(* Values the variables of a component hold while another one is explored. *)
InterpIdle ==
    /\ breakpoints = <<>>
    /\ factors = <<>>
    /\ prev = None
    /\ cur = None

LookupIdle ==
    /\ siteFactorObj = None
    /\ designObj = None
    /\ outcome = None

ClassifyIdle ==
    /\ data = <<>>
    /\ idx = 0
    /\ cumulative_sum = None
    /\ table = <<>>
    /\ pc = "idle"
    /\ returned = <<>>

(* interpolate_factor is a static method that keeps nothing between calls: *)
(* the model records two calls on one table, the pair the relational       *)
(* properties compare, and stops there.                                    *)
NoCall == [cls |-> "None", value |-> Zero, ret |-> Zero, line |-> 0]

InitInterpolate ==
    /\ breakpoints \in BreakpointLists
    /\ factors \in FactorLists(Len(breakpoints))
    /\ prev = NoCall
    /\ cur = NoCall
    /\ LookupIdle
    /\ ClassifyIdle

CallSiteFactorInterpolate ==
    \E value \in Values :
        LET r == SiteFactorInterpolate(value, breakpoints, factors)
        IN  /\ prev = NoCall
            /\ cur' = [cls |-> "SeismicSiteFactor", value |-> value,
                       ret |-> r.ret, line |-> r.line]
            /\ prev' = cur
            /\ UNCHANGED <<breakpoints, factors, lookupVars, classifyVars>>

CallDesignInterpolate ==
    \E value \in Values :
        LET r == DesignInterpolate(value, breakpoints, factors)
        IN  /\ prev = NoCall
            /\ cur' = [cls |-> "SeismicDesign", value |-> value,
                       ret |-> r.ret, line |-> r.line]
            /\ prev' = cur
            /\ UNCHANGED <<breakpoints, factors, lookupVars, classifyVars>>

NextInterpolate == CallSiteFactorInterpolate \/ CallDesignInterpolate

SpecInterpolate == InitInterpolate /\ [][NextInterpolate]_vars

(***************************************************************************)
(* Properties of the interpolation routines.                               *)
(***************************************************************************)
WellFormedTable ==
    /\ Len(breakpoints) >= 2
    /\ Len(factors) = Len(breakpoints)
    /\ StrictlyIncreasing(breakpoints)

Calls == {c \in {prev, cur} : c.cls # "None"}

SiteFactorCalls == {c \in Calls : c.cls = "SeismicSiteFactor"}

StrictlyInside(v) == RLt(breakpoints[1], v) /\ RLt(v, Last(breakpoints))

(* C1: on a well-formed table, SeismicSiteFactor.interpolate_factor returns *)
(* exactly factors[0] for every value <= breakpoints[0] and exactly         *)
(* factors[N-1] for every value >= breakpoints[N-1].                        *)
C1_OutOfRangeClamped ==
    WellFormedTable =>
        \A c \in SiteFactorCalls :
            /\ RLe(c.value, breakpoints[1]) => c.ret = factors[1]
            /\ RLe(Last(breakpoints), c.value) => c.ret = Last(factors)

C1_Witness ==
    /\ WellFormedTable
    /\ factors[1] # Last(factors)
    /\ prev.cls = "SeismicSiteFactor" /\ cur.cls = "SeismicSiteFactor"
    /\ RLt(prev.value, breakpoints[1]) /\ prev.ret = factors[1]
    /\ RLt(Last(breakpoints), cur.value) /\ cur.ret = Last(factors)

(* C2: a value lying exactly on an interior breakpoint i (0 < i < N-1)      *)
(* yields factors[i] exactly, in both interpolate_factor routines.          *)
C2_InteriorBreakpointExact ==
    WellFormedTable =>
        \A c \in Calls :
            \A i \in 2..(Len(breakpoints) - 1) :
                c.value = breakpoints[i] => c.ret = factors[i]

C2_Witness ==
    /\ WellFormedTable
    /\ Len(breakpoints) >= 3
    /\ factors[2] # factors[1] /\ factors[2] # factors[3]
    /\ prev.cls = "SeismicSiteFactor" /\ cur.cls = "SeismicDesign"
    /\ prev.value = breakpoints[2] /\ cur.value = breakpoints[2]
    /\ prev.ret = factors[2] /\ cur.ret = factors[2]

(* C3: for a value strictly between the first and the last breakpoint there *)
(* is exactly one interval i with breakpoints[i] <= value < breakpoints[i+1]*)
(* and SeismicSiteFactor.interpolate_factor returns the linear              *)
(* interpolation over it ((ret - f[i]) * (b[i+1] - b[i]) =                  *)
(* (value - b[i]) * (f[i+1] - f[i])); the fallback return after the loop    *)
(* (line 155) is never the one taken.                                       *)
C3_InteriorLinearInterpolation ==
    WellFormedTable =>
        \A c \in SiteFactorCalls :
            /\ c.line # 155
            /\ StrictlyInside(c.value) =>
                  LET I == {i \in 1..(Len(breakpoints) - 1) :
                              /\ RLe(breakpoints[i], c.value)
                              /\ RLt(c.value, breakpoints[i + 1])}
                  IN  /\ Cardinality(I) = 1
                      /\ c.line = 148
                      /\ \A i \in I :
                            RMul(RSub(c.ret, factors[i]),
                                 RSub(breakpoints[i + 1], breakpoints[i]))
                              = RMul(RSub(c.value, breakpoints[i]),
                                     RSub(factors[i + 1], factors[i]))

C3_Witness ==
    /\ WellFormedTable
    /\ cur.cls = "SeismicSiteFactor"
    /\ cur.line = 148
    /\ \E i \in 2..(Len(breakpoints) - 1) :
          /\ RLt(breakpoints[i], cur.value)
          /\ RLt(cur.value, breakpoints[i + 1])
          /\ factors[i] # factors[i + 1]
          /\ cur.ret # factors[i] /\ cur.ret # factors[i + 1]

MonotonicallyDecreasing(f) == \A i \in 1..(Len(f) - 1) : RLe(f[i + 1], f[i])

(* C4: when the factors are monotonically decreasing, two calls of          *)
(* SeismicSiteFactor.interpolate_factor with v1 <= v2 return r1 >= r2.      *)
C4_InterpolationMonotone ==
    (WellFormedTable /\ MonotonicallyDecreasing(factors)) =>
        \A c1 \in SiteFactorCalls, c2 \in SiteFactorCalls :
            RLe(c1.value, c2.value) => RLe(c2.ret, c1.ret)

C4_Witness ==
    /\ WellFormedTable
    /\ MonotonicallyDecreasing(factors)
    /\ prev.cls = "SeismicSiteFactor" /\ cur.cls = "SeismicSiteFactor"
    /\ StrictlyInside(prev.value) /\ StrictlyInside(cur.value)
    /\ prev.line = 148 /\ cur.line = 148
    /\ RLt(prev.value, cur.value)
    /\ RLt(cur.ret, prev.ret)

(* C10: on the same table and the same value, SeismicDesign.interpolate_factor *)
(* and SeismicSiteFactor.interpolate_factor return the same result.         *)
C10_RoutinesAgree ==
    WellFormedTable =>
        \A c1 \in Calls, c2 \in Calls :
            (c1.cls # c2.cls /\ c1.value = c2.value) => c1.ret = c2.ret

C10_Witness ==
    /\ WellFormedTable
    /\ prev.cls = "SeismicSiteFactor" /\ cur.cls = "SeismicDesign"
    /\ prev.value = cur.value
    /\ prev.line = 148 /\ cur.line = 210
    /\ prev.ret = cur.ret
    /\ \A i \in 1..Len(factors) : cur.ret # factors[i]

(***************************************************************************)
(* The site-factor lookup classes.  Dec(h) is the decimal literal h/100.   *)
(***************************************************************************)
Dec(h) == Rat(h, 100)

DecList(s) == [i \in 1..Len(s) |-> Dec(s[i])]

GroundTypes == {"I", "II", "III"}

(* self.site_factors: per ground type, the keys in insertion order and the *)
(* factor stored under each key.                                           *)
SiteFactorKeys == <<"0.00", "0.10", "0.20", "0.30", "0.40", "0.50", "0.80">>

SiteFactors ==
    [gt \in GroundTypes |->
        LET vals == CASE gt = "I" -> <<120, 120, 120, 110, 110, 100, 100>>
                      [] gt = "II" -> <<160, 160, 140, 120, 100, 90, 85>>
                      [] gt = "III" -> <<250, 250, 170, 120, 90, 80, 75>>
        IN  [k \in {SiteFactorKeys[i] : i \in 1..Len(SiteFactorKeys)} |->
                Dec(vals[CHOOSE i \in 1..Len(SiteFactorKeys) : SiteFactorKeys[i] = k])]]

(* float(k) on the keys of site_factors. *)
Float(k) ==
    CASE k = "0.00" -> Rat(0, 100)
      [] k = "0.10" -> Rat(10, 100)
      [] k = "0.20" -> Rat(20, 100)
      [] k = "0.30" -> Rat(30, 100)
      [] k = "0.40" -> Rat(40, 100)
      [] k = "0.50" -> Rat(50, 100)
      [] k = "0.80" -> Rat(80, 100)

(* f"{k:.2f}" for 0 <= k < 10: two decimals, rounded to nearest. *)
DigitChars == <<"0", "1", "2", "3", "4", "5", "6", "7", "8", "9">>

Format2f(k) ==
    LET h == (2 * 100 * k.n + k.d) \div (2 * k.d)
    IN  DigitChars[(h \div 100) + 1] \o "." \o DigitChars[((h \div 10) % 10) + 1]
            \o DigitChars[(h % 10) + 1]

(* sorted(...) of a set of floats. *)
RECURSIVE Sorted(_)
Sorted(S) ==
    IF S = {} THEN <<>>
    ELSE LET m == CHOOSE x \in S : \A y \in S : RLe(x, y)
         IN  <<m>> \o Sorted(S \ {m})

fa_table ==
    [gt \in GroundTypes |->
        CASE gt = "I" -> DecList(<<120, 120, 110, 100, 100, 100>>)
          [] gt = "II" -> DecList(<<160, 140, 120, 100, 90, 85>>)
          [] gt = "III" -> DecList(<<250, 170, 120, 90, 80, 75>>)]

ss_values == DecList(<<25, 50, 75, 100, 125, 200>>)

fv_table ==
    [gt \in GroundTypes |->
        CASE gt = "I" -> DecList(<<170, 160, 150, 140, 140, 140>>)
          [] gt = "II" -> DecList(<<240, 200, 180, 160, 150, 150>>)
          [] gt = "III" -> DecList(<<350, 320, 280, 240, 240, 200>>)]

s1_values == DecList(<<10, 20, 30, 40, 50, 80>>)

(* Arguments the callers pass. *)
GroundTypeArgs == GroundTypes \cup {"IV"}
NumberArgs == {Dec(-10), Dec(40), Dec(60), Dec(110)}
ScalarArgs == NumberArgs \cup {None}

Outcome(op, status, ret) == [op |-> op, status |-> status, ret |-> ret]

InitLookup ==
    /\ siteFactorObj = None
    /\ designObj = None
    /\ outcome = Outcome("None", "return", None)
    /\ InterpIdle
    /\ ClassifyIdle

(* SeismicSiteFactor.__init__ *)
SiteFactorInit ==
    \E ground_type \in GroundTypeArgs, pga \in ScalarArgs, ss \in ScalarArgs,
       s1 \in ScalarArgs :
        /\ siteFactorObj = None
        /\ IF \/ ground_type \notin {"I", "II", "III"}
              \/ (pga # None /\ RLt(pga, Zero))
              \/ (ss # None /\ RLt(ss, Zero))
              \/ (s1 # None /\ RLt(s1, Zero))
           THEN /\ outcome' = Outcome("SeismicSiteFactor.__init__", "ValueError", None)
                /\ UNCHANGED siteFactorObj
           ELSE /\ siteFactorObj' = [ground_type |-> ground_type, pga |-> pga,
                                     ss |-> ss, s1 |-> s1]
                /\ outcome' = Outcome("SeismicSiteFactor.__init__", "return", None)
        /\ UNCHANGED <<designObj, interpVars, classifyVars>>

(* SeismicSiteFactor.interpolate_site_factor *)
interpolate_site_factor(self) ==
    IF self.pga = None
    THEN Outcome("SeismicSiteFactor.interpolate_site_factor", "ValueError", None)
    ELSE IF self.ground_type \notin DOMAIN SiteFactors
    THEN Outcome("SeismicSiteFactor.interpolate_site_factor", "return", None)
    ELSE LET factors_dict == SiteFactors[self.ground_type]
             numeric_pga_keys == Sorted({Float(k) : k \in DOMAIN factors_dict})
             factor_values == [i \in 1..Len(numeric_pga_keys) |->
                                  factors_dict[Format2f(numeric_pga_keys[i])]]
         IN  Outcome("SeismicSiteFactor.interpolate_site_factor", "return",
                     SiteFactorInterpolate(self.pga, numeric_pga_keys,
                                           factor_values).ret)

SiteFactorInterpolateSiteFactor ==
    /\ siteFactorObj # None
    /\ outcome' = interpolate_site_factor(siteFactorObj)
    /\ UNCHANGED <<siteFactorObj, designObj, interpVars, classifyVars>>

(* SeismicSiteFactor.get_site_factor_fa *)
SiteFactorGetFa ==
    /\ siteFactorObj # None
    /\ outcome' =
          IF siteFactorObj.ss = None
          THEN Outcome("SeismicSiteFactor.get_site_factor_fa", "ValueError", None)
          ELSE IF siteFactorObj.ground_type \notin DOMAIN fa_table
          THEN Outcome("SeismicSiteFactor.get_site_factor_fa", "KeyError", None)
          ELSE Outcome("SeismicSiteFactor.get_site_factor_fa", "return",
                       SiteFactorInterpolate(siteFactorObj.ss, ss_values,
                                             fa_table[siteFactorObj.ground_type]).ret)
    /\ UNCHANGED <<siteFactorObj, designObj, interpVars, classifyVars>>

(* SeismicSiteFactor.get_site_factor_fv *)
SiteFactorGetFv ==
    /\ siteFactorObj # None
    /\ outcome' =
          IF siteFactorObj.s1 = None
          THEN Outcome("SeismicSiteFactor.get_site_factor_fv", "ValueError", None)
          ELSE IF siteFactorObj.ground_type \notin DOMAIN fv_table
          THEN Outcome("SeismicSiteFactor.get_site_factor_fv", "KeyError", None)
          ELSE Outcome("SeismicSiteFactor.get_site_factor_fv", "return",
                       SiteFactorInterpolate(siteFactorObj.s1, s1_values,
                                             fv_table[siteFactorObj.ground_type]).ret)
    /\ UNCHANGED <<siteFactorObj, designObj, interpVars, classifyVars>>

(* SeismicDesign.__init__ *)
DesignInit ==
    \E ground_type \in GroundTypeArgs :
        /\ designObj = None
        /\ designObj' = [ground_type |-> ground_type]
        /\ outcome' = Outcome("SeismicDesign.__init__", "return", None)
        /\ UNCHANGED <<siteFactorObj, interpVars, classifyVars>>

(* SeismicDesign.get_site_factor_fa *)
DesignGetFa ==
    \E ss \in NumberArgs :
        /\ designObj # None
        /\ outcome' =
              IF designObj.ground_type \notin DOMAIN fa_table
              THEN Outcome("SeismicDesign.get_site_factor_fa", "KeyError", None)
              ELSE Outcome("SeismicDesign.get_site_factor_fa", "return",
                           DesignInterpolate(ss, ss_values,
                                             fa_table[designObj.ground_type]).ret)
        /\ UNCHANGED <<siteFactorObj, designObj, interpVars, classifyVars>>

(* SeismicDesign.get_site_factor_fv *)
DesignGetFv ==
    \E s1 \in NumberArgs :
        /\ designObj # None
        /\ outcome' =
              IF designObj.ground_type \notin DOMAIN fv_table
              THEN Outcome("SeismicDesign.get_site_factor_fv", "KeyError", None)
              ELSE Outcome("SeismicDesign.get_site_factor_fv", "return",
                           DesignInterpolate(s1, s1_values,
                                             fv_table[designObj.ground_type]).ret)
        /\ UNCHANGED <<siteFactorObj, designObj, interpVars, classifyVars>>

NextLookup ==
    \/ SiteFactorInit
    \/ SiteFactorInterpolateSiteFactor
    \/ SiteFactorGetFa
    \/ SiteFactorGetFv
    \/ DesignInit
    \/ DesignGetFa
    \/ DesignGetFv

SpecLookup == InitLookup /\ [][NextLookup]_vars

(* C8: an invalid ground_type is rejected at construction by both lookup   *)
(* classes, so no instance of SeismicSiteFactor or SeismicDesign holds a   *)
(* ground_type outside I, II, III and no lookup method fails on it.        *)
C8_InvalidGroundTypeRejectedAtConstruction ==
    /\ siteFactorObj # None => siteFactorObj.ground_type \in GroundTypes
    /\ designObj # None => designObj.ground_type \in GroundTypes
    /\ outcome.status # "KeyError"

(***************************************************************************)
(* classify_ground_type.  The data=None default dataset is not drawn: the  *)
(* function only substitutes it for the argument before the loop.          *)
(***************************************************************************)
TypeIILower == Rat(2, 10)     \* the literal 0.2
TypeIIILower == Rat(6, 10)    \* the literal 0.6

(* Hv of one layer: None when Vs == 0, else H / Vs. *)
LayerRatio(H, Vs) == IF Vs = Zero THEN None ELSE RDiv(H, Vs)

(* Mutants: "cumulative_sum = Hv" and "cumulative_sum -= Hv" for "+=". *)
Accumulate_Assign(sum, Hv) == IF Hv = None THEN sum ELSE Hv

Accumulate_Subtract(sum, Hv) == IF Hv = None THEN sum ELSE RSub(sum, Hv)

(* cumulative_sum after one layer: cumulative_sum += Hv unless Vs == 0. *)
Accumulate(sum, Hv) == IF Hv = None THEN sum ELSE RAdd(sum, Hv)

(* Tg = 4 * cumulative_sum *)
TgOf(sum) == RMul(Rat(4, 1), sum)

(* Mutant: the first threshold test is "<=" instead of "<". *)
GroundTypeOf_InclusiveFirst(Tg) ==
    IF RLe(Tg, TypeIILower) THEN "Type I"
    ELSE IF RLe(TypeIILower, Tg) /\ RLt(Tg, TypeIIILower) THEN "Type II"
    ELSE "Type III"

(* The if / elif / else chain on Tg. *)
GroundTypeOf(Tg) ==
    IF RLt(Tg, TypeIILower) THEN "Type I"
    ELSE IF RLe(TypeIILower, Tg) /\ RLt(Tg, TypeIIILower) THEN "Type II"
    ELSE "Type III"

HValues == {Rat(h, 1) : h \in (-1)..MaxH}
VsValues == {Rat(-20, 1), Zero, Rat(20, 1), Rat(40, 1)}
Layers == {<<H, Vs>> : H \in HValues, Vs \in VsValues}
LayerSequences == UNION {[1..n -> Layers] : n \in 0..MaxLayers}

InitClassify ==
    /\ data \in LayerSequences
    /\ idx = 1
    /\ cumulative_sum = Zero
    /\ table = <<>>
    /\ pc = "loop"
    /\ returned = <<>>
    /\ InterpIdle
    /\ LookupIdle

(* One iteration of "for H, Vs in data". *)
ClassifyIterate ==
    /\ pc = "loop"
    /\ idx <= Len(data)
    /\ LET H == data[idx][1]
           Vs == data[idx][2]
           Hv == LayerRatio(H, Vs)
           sum == Accumulate(cumulative_sum, Hv)
           Tg == TgOf(sum)
           ground_type == GroundTypeOf(Tg)
       IN  /\ cumulative_sum' = sum
           /\ table' = Append(table, [H |-> H, Vs |-> Vs, Hv |-> Hv, Tg |-> Tg,
                                      ground_type |-> ground_type])
    /\ idx' = idx + 1
    /\ UNCHANGED <<data, pc, returned, interpVars, lookupVars>>

(* "return table" once the loop is exhausted. *)
ClassifyReturn ==
    /\ pc = "loop"
    /\ idx > Len(data)
    /\ pc' = "returned"
    /\ returned' = table
    /\ UNCHANGED <<data, idx, cumulative_sum, table, interpVars, lookupVars>>

NextClassify == ClassifyIterate \/ ClassifyReturn

SpecClassify == InitClassify /\ [][NextClassify]_vars

(***************************************************************************)
(* Properties of classify_ground_type.                                     *)
(***************************************************************************)
Rows == 1..Len(table)

(* The sum of H_j/Vs_j over the layers j <= k of d with Vs_j != 0. *)
RECURSIVE SumOfRatios(_, _)
SumOfRatios(d, k) ==
    IF k = 0 THEN Zero
    ELSE RAdd(SumOfRatios(d, k - 1),
              IF d[k][2] = Zero THEN Zero ELSE RDiv(d[k][1], d[k][2]))

PreviousTg(k) == IF k = 1 THEN Zero ELSE table[k - 1].Tg

(* C5: the cumulative sum starts at 0; row k's TG is 4 times the sum of     *)
(* H_j/Vs_j over the layers j <= k with Vs_j != 0; a layer with Vs = 0 has  *)
(* an undefined ratio and repeats the previous row's TG (0 on row one).     *)
C5_TgIsFourTimesCumulativeSum ==
    /\ Len(table) = 0 => cumulative_sum = Zero
    /\ \A k \in Rows :
          /\ table[k].Tg = RMul(Rat(4, 1), SumOfRatios(data, k))
          /\ data[k][2] = Zero =>
                (table[k].Hv = None /\ table[k].Tg = PreviousTg(k))

C5_Witness ==
    /\ Len(table) >= 3
    /\ data[1][2] # Zero /\ data[2][2] = Zero /\ data[3][2] # Zero
    /\ table[1].Tg # Zero
    /\ table[2].Hv = None /\ table[2].Tg = table[1].Tg
    /\ table[3].Tg # table[2].Tg

(* C6: every row's ground type is decided by its own TG alone: Type I iff   *)
(* TG < 0.2, Type II iff 0.2 <= TG < 0.6, Type III iff TG >= 0.6.           *)
C6_GroundTypeThresholds ==
    \A k \in Rows :
        LET Tg == table[k].Tg
            gt == table[k].ground_type
        IN  /\ gt \in {"Type I", "Type II", "Type III"}
            /\ gt = "Type I" <=> RLt(Tg, Rat(1, 5))
            /\ gt = "Type II" <=> (RLe(Rat(1, 5), Tg) /\ RLt(Tg, Rat(3, 5)))
            /\ gt = "Type III" <=> RLe(Rat(3, 5), Tg)

C6_Witness ==
    /\ \E k \in Rows : table[k].Tg = Rat(1, 5) /\ table[k].ground_type = "Type II"
    /\ \E k \in Rows : table[k].Tg = Rat(3, 5) /\ table[k].ground_type = "Type III"
    /\ \E k \in Rows : table[k].ground_type = "Type I"

NonNegativeLayers ==
    \A k \in 1..Len(data) : RLe(Zero, data[k][1]) /\ RLe(Zero, data[k][2])

Severity(gt) == CASE gt = "Type I" -> 1 [] gt = "Type II" -> 2 [] gt = "Type III" -> 3

(* C7: when every H and every Vs is non-negative, TG never decreases from   *)
(* one row to a later one and the ground type never becomes less severe.    *)
C7_SeverityNeverDecreases ==
    NonNegativeLayers =>
        \A j \in Rows, k \in Rows :
            j < k =>
                /\ RLe(table[j].Tg, table[k].Tg)
                /\ Severity(table[j].ground_type) <= Severity(table[k].ground_type)

C7_Witness ==
    /\ NonNegativeLayers
    /\ Len(table) = 3
    /\ table[1].ground_type = "Type I" /\ RLt(Zero, table[1].Tg)
    /\ table[2].ground_type = "Type II"
    /\ table[3].ground_type = "Type III"

HasNegativeLayer ==
    \E k \in 1..Len(data) : RLt(data[k][1], Zero) \/ RLt(data[k][2], Zero)

(* C9: with a negative H or a negative Vs among the layers,                 *)
(* classify_ground_type fails and returns no table.                         *)
C9_NegativeLayerRejected == HasNegativeLayer => pc # "returned"

====
